---- MODULE Spec2Model ----
(***************************************************************************)
(* The prediction engine of src/utils/predictorLogic.ts (lines 1-316):     *)
(* consolidateAcrossRounds, aggregateMeanStd, probabilityFromStats,        *)
(* estimateAllotmentRound and predictColleges.                             *)
(*                                                                         *)
(* Representation.                                                         *)
(*  - A JavaScript number is a record [fin, v]: a finite number is         *)
(*    [fin |-> TRUE, v |-> n] with n an integer; NaN, +Infinity and        *)
(*    -Infinity are the three non-finite values.  Marks, means, standard   *)
(*    deviations and bounds are whole numbers; a quotient or square root   *)
(*    that is not whole is rounded down to the grid.  Magnitudes stay far  *)
(*    below the overflow threshold of a double, so no finite operation     *)
(*    yields Infinity.                                                     *)
(*  - A probability (rawScore) is an integer number of 1/PScale units.     *)
(*  - A z-score is an integer number of 1/ZScale units.                    *)
(*  - A string is a sequence of one-character strings, so that trim(),     *)
(*    toLowerCase(), join("|") and /\d+/ are computed character by         *)
(*    character.  A field that is absent from a record (undefined) is the  *)
(*    value Undefined.                                                     *)
(***************************************************************************)
EXTENDS Integers, Sequences, FiniteSets, TLC

VARIABLES
    marks,          \* the score handed to the function under way
    filters,        \* predictColleges: the five filter strings
    data,           \* the list of CollegeSummary records handed in
    pc,             \* where the call under way stands
    consolidated,   \* predictColleges: const consolidated
    kept,           \* the array returned by the first .filter
    scored,         \* the array returned by .map
    ranked,         \* const ranked
    idx,            \* the position of the loop over ranked
    bestByCollege,  \* the Map, as its entries in insertion order
    result,         \* the value predictColleges returns
    college,        \* probabilityFromStats: its argument college
    details,        \* probabilityFromStats: the value it returns
    allotmentRound, \* estimateAllotmentRound: the value it returns
    aggPoints,      \* aggregateMeanStd: its argument points
    aggregate       \* aggregateMeanStd: the value it returns

vars == <<marks, filters, data, pc, consolidated, kept, scored, ranked, idx,
          bestByCollege, result, college, details, allotmentRound,
                   aggPoints, aggregate>>

(***************************************************************************)
(* Numbers                                                                 *)
(***************************************************************************)
Fin(n) == [fin |-> TRUE, v |-> n]
NaN == [fin |-> FALSE, v |-> 0]
PosInf == [fin |-> FALSE, v |-> 1]
NegInf == [fin |-> FALSE, v |-> -1]

\* Number.isFinite
IsFinite(x) == x.fin

\* a < b on JavaScript numbers: false as soon as one side is NaN
NumLt(a, b) ==
    IF a = NaN \/ b = NaN THEN FALSE
    ELSE IF a.fin /\ b.fin THEN a.v < b.v
    ELSE IF a.fin THEN b = PosInf
    ELSE IF b.fin THEN a = NegInf
    ELSE a = NegInf /\ b = PosInf

\* Math.min(...xs) and Math.max(...xs) of a non-empty list: NaN if any
\* argument is NaN
RECURSIVE MathMin(_)
MathMin(xs) ==
    IF Len(xs) = 1 THEN xs[1]
    ELSE LET r == MathMin(Tail(xs))
         IN  IF xs[1] = NaN \/ r = NaN THEN NaN
             ELSE IF NumLt(r, xs[1]) THEN r ELSE xs[1]

RECURSIVE MathMax(_)
MathMax(xs) ==
    IF Len(xs) = 1 THEN xs[1]
    ELSE LET r == MathMax(Tail(xs))
         IN  IF xs[1] = NaN \/ r = NaN THEN NaN
             ELSE IF NumLt(xs[1], r) THEN r ELSE xs[1]

\* Math.sqrt on the grid: the largest r with r*r <= n
RECURSIVE SqrtBetween(_, _, _)
SqrtBetween(n, lo, hi) ==
    IF lo >= hi THEN lo
    ELSE LET mid == (lo + hi + 1) \div 2
         IN  IF mid * mid <= n THEN SqrtBetween(n, mid, hi)
             ELSE SqrtBetween(n, lo, mid - 1)

MathSqrt(n) == SqrtBetween(n, 0, n)

\* The unit of a probability: rawScore r stands for r / PScale
PScale == 10000
\* The unit of a z-score: zScore z stands for z / ZScale
ZScale == 10

\* The probability literals of the source, in PScale units
Prob(percent) == (percent * PScale) \div 100

(***************************************************************************)
(* Strings                                                                 *)
(***************************************************************************)
Undefined == <<"undefined">>

Lower(c) ==
    CASE c = "A" -> "a"
      [] c = "B" -> "b"
      [] c = "M" -> "m"
      [] c = "R" -> "r"
      [] c = "S" -> "s"
      [] OTHER -> c

\* String.prototype.toLowerCase
ToLowerCase(s) == [k \in 1..Len(s) |-> Lower(s[k])]

IsSpace(c) == c = " "

\* String.prototype.trim
RECURSIVE TrimStart(_)
TrimStart(s) ==
    IF s # <<>> /\ IsSpace(Head(s)) THEN TrimStart(Tail(s)) ELSE s

RECURSIVE TrimEnd(_)
TrimEnd(s) ==
    IF s # <<>> /\ IsSpace(s[Len(s)]) THEN TrimEnd(SubSeq(s, 1, Len(s) - 1))
    ELSE s

Trim(s) == TrimEnd(TrimStart(s))

\* v.trim().toLowerCase()
Normalize(s) == ToLowerCase(Trim(s))

DigitChars == <<"0", "1", "2", "3", "4", "5", "6", "7", "8", "9">>

IsDigit(c) == \E d \in 1..10 : DigitChars[d] = c

DigitValue(c) == (CHOOSE d \in 1..10 : DigitChars[d] = c) - 1

\* String(n) of a non-negative whole number
RECURSIVE NumberToString(_)
NumberToString(n) ==
    IF n < 10 THEN <<DigitChars[n + 1]>>
    ELSE NumberToString(n \div 10) \o <<DigitChars[(n % 10) + 1]>>

\* Array.prototype.join("|")
RECURSIVE JoinBar(_)
JoinBar(parts) ==
    IF Len(parts) = 0 THEN <<>>
    ELSE IF Len(parts) = 1 THEN parts[1]
    ELSE parts[1] \o <<"|">> \o JoinBar(Tail(parts))

(***************************************************************************)
(* probabilityFromStats                                                    *)
(***************************************************************************)
\* Clamp with the upper bound forgotten: Math.max(min, value)
ClampLowerOnly(value, min, max) == IF value < min THEN min ELSE value

\* Math.min(max, Math.max(min, value)) on finite numbers
Clamp(value, min, max) ==
    LET lower == IF value < min THEN min ELSE value
    IN  IF lower > max THEN max ELSE lower

\* erf(|z| / sqrt 2) of the Abramowitz-Stegun approximation
\*   1 - (((((a5 t + a4) t + a3) t + a2) t + a1) t exp(-x x)),
\*   t = 1 / (1 + 0.3275911 x),
\* evaluated in double arithmetic at |z| = 0.0, 0.1, ..., 3.7 and rounded
\* down to PScale units.  From |z| = 3.8 the value is within two units of 1
\* and stays below 1 until the double result is exactly 1.0, at |z| = 8.4.
ErfTable ==
    << 0, 796, 1585, 2358, 3108, 3829, 4514, 5160, 5762, 6318,
       6826, 7286, 7698, 8063, 8384, 8663, 8904, 9108, 9281, 9425,
       9544, 9642, 9721, 9785, 9836, 9875, 9906, 9930, 9948, 9962,
       9973, 9980, 9986, 9990, 9993, 9995, 9996, 9997 >>

Erf(absZ) ==
    IF absZ >= 84 THEN PScale
    ELSE IF absZ >= Len(ErfTable) THEN PScale - 2
    ELSE ErfTable[absZ + 1]

\* normalCdf with the sign of z dropped
normalCdfUnsigned(z) ==
    LET absZ == IF z < 0 THEN -z ELSE z
    IN  (PScale + Erf(absZ)) \div 2

\* normalCdf(z) = 0.5 * (1 + sign * erf)
normalCdf(z) ==
    LET sign == IF z < 0 THEN -1 ELSE 1
        absZ == IF z < 0 THEN -z ELSE z
    IN  (PScale + sign * Erf(absZ)) \div 2

Null == [null |-> TRUE, v |-> 0]
Details(method, m, c, zScore, rawScore) ==
    [method |-> method, inputMarks |-> m, mean |-> c.marks_mean,
     std |-> c.marks_std, min |-> c.marks_min, max |-> c.marks_max,
     zScore |-> zScore, rawScore |-> rawScore]

\* The floor test taken inclusively: marks <= min
BelowFloorInclusive(m, min) == IsFinite(min) /\ m.v <= min.v

\* Number.isFinite(min) && marks < min, for finite marks
BelowFloor(m, min) == IsFinite(min) /\ m.v < min.v

probabilityFromStats(m, c) ==
    LET mean == c.marks_mean
        std == c.marks_std
        min == c.marks_min
        max == c.marks_max
    IN  IF ~IsFinite(m) \/ ~IsFinite(mean)
        THEN Details("fallback", m, c, Null, 0)
        ELSE IF BelowFloor(m, min)
        THEN Details("fallback", m, c, Null, 0)
        ELSE IF IsFinite(std) /\ std.v > 0
        THEN LET zScore == ((m.v - mean.v) * ZScale) \div std.v
             IN  Details("normal_cdf", m, c, [null |-> FALSE, v |-> zScore],
                         Clamp(normalCdf(zScore), 0, PScale))
        ELSE IF IsFinite(min) /\ IsFinite(max) /\ max.v > min.v
        THEN Details("min_max_linear", m, c, Null,
                     Clamp(((m.v - min.v) * PScale) \div (max.v - min.v),
                           0, PScale))
        ELSE Details("fallback", m, c, Null,
                     IF m.v >= mean.v THEN Prob(85) ELSE Prob(15))

\* chanceFromProbability
chanceFromProbability(probability) ==
    IF probability >= Prob(75) THEN "High"
    ELSE IF probability >= Prob(45) THEN "Medium"
    ELSE "Low"

(***************************************************************************)
(* Objects                                                                 *)
(***************************************************************************)
\* { ...a, ...b }: the fields of b override those of a
Spread(a, b) ==
    [k \in DOMAIN a \cup DOMAIN b |-> IF k \in DOMAIN b THEN b[k] ELSE a[k]]

\* const { key, ...rest } = r
Rest(r, key) == [k \in DOMAIN r \ {key} |-> r[k]]

RECURSIVE SumSeq(_)
SumSeq(xs) == IF xs = <<>> THEN 0 ELSE xs[1] + SumSeq(Tail(xs))

(***************************************************************************)
(* aggregateMeanStd                                                        *)
(***************************************************************************)
\* The filter without its last condition p.std >= 0
ValidPointAnyStd(p) == IsFinite(p.mean) /\ IsFinite(p.std)

ValidPoint(p) == IsFinite(p.mean) /\ IsFinite(p.std) /\ p.std.v >= 0

\* The function returning the variance where it returns its square root
aggregateMeanStdNoSqrt(points) ==
    IF Len(points) = 0 THEN [mean |-> Fin(0), std |-> Fin(0)]
    ELSE LET valid == SelectSeq(points, ValidPoint)
         IN  IF Len(valid) = 0 THEN [mean |-> Fin(0), std |-> Fin(0)]
             ELSE LET n == Len(valid)
                      mean == SumSeq([k \in 1..n |-> valid[k].mean.v]) \div n
                      secondMoment ==
                          SumSeq([k \in 1..n |->
                                    valid[k].std.v * valid[k].std.v
                                    + valid[k].mean.v * valid[k].mean.v]) \div n
                      diff == secondMoment - mean * mean
                      variance == IF diff < 0 THEN 0 ELSE diff
                  IN  [mean |-> Fin(mean), std |-> Fin(variance)]

aggregateMeanStd(points) ==
    IF Len(points) = 0 THEN [mean |-> Fin(0), std |-> Fin(0)]
    ELSE LET valid == SelectSeq(points, ValidPoint)
         IN  IF Len(valid) = 0 THEN [mean |-> Fin(0), std |-> Fin(0)]
             ELSE LET n == Len(valid)
                      mean == SumSeq([k \in 1..n |-> valid[k].mean.v]) \div n
                      secondMoment ==
                          SumSeq([k \in 1..n |->
                                    valid[k].std.v * valid[k].std.v
                                    + valid[k].mean.v * valid[k].mean.v]) \div n
                      diff == secondMoment - mean * mean
                      variance == IF diff < 0 THEN 0 ELSE diff
                  IN  [mean |-> Fin(mean), std |-> Fin(MathSqrt(variance))]

(***************************************************************************)
(* consolidateAcrossRounds                                                 *)
(***************************************************************************)
AllRounds == <<"All Rounds">>

\* The fields of the grouping key on which .trim() is called
KeyFields(item) ==
    <<item.college, item.course, item.quota, item.category, item.community,
      item.college_type>>

\* v.trim() on a field that is not a string throws a TypeError
KeyThrows(item) == \E k \in 1..6 : KeyFields(item)[k] = Undefined

GroupKey(item) ==
    LET parts == KeyFields(item) \o <<NumberToString(item.year)>>
    IN  JoinBar([k \in 1..Len(parts) |-> Normalize(parts[k])])

\* The Map after the loop over data: its entries in insertion order
RECURSIVE Grouped(_)
Grouped(items) ==
    IF items = <<>> THEN <<>>
    ELSE LET before == Grouped(SubSeq(items, 1, Len(items) - 1))
             item == items[Len(items)]
             key == GroupKey(item)
         IN  IF \E g \in 1..Len(before) : before[g].key = key
             THEN [g \in 1..Len(before) |->
                     IF before[g].key = key
                     THEN [key |-> key, list |-> Append(before[g].list, item)]
                     ELSE before[g]]
             ELSE Append(before, [key |-> key, list |-> <<item>>])

ConsolidateGroup(items) ==
    LET base == items[1]
        n == Len(items)
        rankAgg == aggregateMeanStd([k \in 1..n |->
                      [mean |-> items[k].rank_mean, std |-> items[k].rank_std]])
        marksAgg == aggregateMeanStd([k \in 1..n |->
                      [mean |-> items[k].marks_mean, std |-> items[k].marks_std]])
    IN  Spread(base,
               [round |-> AllRounds,
                roundSummaries |-> items,
                rank_mean |-> rankAgg.mean,
                rank_std |-> rankAgg.std,
                rank_min |-> MathMin([k \in 1..n |-> items[k].rank_min]),
                rank_max |-> MathMax([k \in 1..n |-> items[k].rank_max]),
                marks_mean |-> marksAgg.mean,
                marks_std |-> marksAgg.std,
                marks_min |-> MathMin([k \in 1..n |-> items[k].marks_min]),
                marks_max |-> MathMax([k \in 1..n |-> items[k].marks_max])])

consolidateThrows(d) == \E k \in 1..Len(d) : KeyThrows(d[k])

consolidateAcrossRounds(d) ==
    LET grouped == Grouped(d)
    IN  [g \in 1..Len(grouped) |-> ConsolidateGroup(grouped[g].list)]

(***************************************************************************)
(* estimateAllotmentRound                                                  *)
(***************************************************************************)
NotLikely == <<"Not likely">>

\* Number.MAX_SAFE_INTEGER is 2^53 - 1; the integers of the checker stop at
\* 2^31 - 1, which stands for it: every integer in a round label is smaller.
MAX_SAFE_INTEGER == 2147483647

\* The digits of s from position k on, up to the first non-digit
RECURSIVE DigitRun(_, _)
DigitRun(s, k) ==
    IF k > Len(s) \/ ~IsDigit(s[k]) THEN <<>>
    ELSE <<s[k]>> \o DigitRun(s, k + 1)

\* Number(digits)
RECURSIVE ParseDigits(_)
ParseDigits(ds) ==
    IF ds = <<>> THEN 0
    ELSE 10 * ParseDigits(SubSeq(ds, 1, Len(ds) - 1)) + DigitValue(ds[Len(ds)])

\* roundOrder matching a single digit, /\d/
roundOrderOneDigit(round) ==
    IF ~\E k \in 1..Len(round) : IsDigit(round[k]) THEN MAX_SAFE_INTEGER
    ELSE LET first == CHOOSE k \in 1..Len(round) :
                          /\ IsDigit(round[k])
                          /\ \A j \in 1..(k - 1) : ~IsDigit(round[j])
         IN  DigitValue(round[first])

\* round.match(/\d+/): the leftmost longest run of digits
roundOrder(round) ==
    IF ~\E k \in 1..Len(round) : IsDigit(round[k]) THEN MAX_SAFE_INTEGER
    ELSE LET first == CHOOSE k \in 1..Len(round) :
                          /\ IsDigit(round[k])
                          /\ \A j \in 1..(k - 1) : ~IsDigit(round[j])
         IN  ParseDigits(DigitRun(round, first))

\* Array.prototype.sort is stable: item goes behind every element that the
\* comparator does not place after it
RECURSIVE InsertByRound(_, _)
InsertByRound(sorted, item) ==
    IF sorted = <<>> THEN <<item>>
    ELSE IF roundOrder(sorted[Len(sorted)].round) - roundOrder(item.round) <= 0
    THEN Append(sorted, item)
    ELSE Append(InsertByRound(SubSeq(sorted, 1, Len(sorted) - 1), item),
                sorted[Len(sorted)])

RECURSIVE SortByRound(_)
SortByRound(xs) ==
    IF xs = <<>> THEN <<>>
    ELSE InsertByRound(SortByRound(SubSeq(xs, 1, Len(xs) - 1)), xs[Len(xs)])

\* The comparator runs only on a list of two or more, and round.match on a
\* round that is not a string throws a TypeError
estimateThrows(rounds) ==
    Len(rounds) >= 2 /\ \E k \in 1..Len(rounds) : rounds[k].round = Undefined

estimateAllotmentRound(rounds, m) ==
    LET rankedRounds ==
            SortByRound([k \in 1..Len(rounds) |->
                [round |-> rounds[k].round,
                 probability |-> probabilityFromStats(m, rounds[k]).rawScore]])
        n == Len(rankedRounds)
        Strong(k) == rankedRounds[k].probability >= Prob(50)
        Possible(k) == rankedRounds[k].probability > 0
    IN  IF \E k \in 1..n : Strong(k)
        THEN rankedRounds[CHOOSE k \in 1..n :
                 Strong(k) /\ \A j \in 1..(k - 1) : ~Strong(j)].round
        ELSE IF \E k \in 1..n : Possible(k)
        THEN rankedRounds[CHOOSE k \in 1..n :
                 Possible(k) /\ \A j \in 1..(k - 1) : ~Possible(j)].round
        ELSE NotLikely

(***************************************************************************)
(* predictColleges                                                         *)
(***************************************************************************)
matchOptionalFilter(value, selected) ==
    LET picked == Normalize(selected)
    IN  IF picked = <<>> THEN TRUE
        ELSE IF value = Undefined \/ value = <<>> THEN TRUE
        ELSE Normalize(value) = picked

PassesFilters(c, f) ==
    /\ matchOptionalFilter(c.course, f.course)
    /\ matchOptionalFilter(c.community, f.community)
    /\ matchOptionalFilter(c.category, f.category)
    /\ matchOptionalFilter(c.quota, f.quota)
    /\ matchOptionalFilter(c.college_type, f.collegeType)

\* The body of .map((c) => ...)
Score(c, m) ==
    LET probabilityDetails == probabilityFromStats(m, c)
        probability == probabilityDetails.rawScore
    IN  Spread(Rest(c, "roundSummaries"),
               [probability |-> probability,
                chance |-> chanceFromProbability(probability),
                allotmentRound |-> estimateAllotmentRound(c.roundSummaries, m),
                probabilityDetails |-> probabilityDetails])

\* The threshold taken strictly
AboveThresholdStrict(c) == c.probability > Prob(10)

AboveThreshold(c) == c.probability >= Prob(10)

\* consolidated.filter(...).map(...).filter(...)
Filtered(cons, f) == SelectSeq(cons, LAMBDA c : PassesFilters(c, f))

\* isBetter without its last tie-break, the more recent year
isBetterNoYear(item, current) ==
    \/ item.probability > current.probability
    \/ /\ item.probability = current.probability
       /\ item.marks_mean.v > current.marks_mean.v

isBetter(item, current) ==
    \/ item.probability > current.probability
    \/ /\ item.probability = current.probability
       /\ item.marks_mean.v > current.marks_mean.v
    \/ /\ item.probability = current.probability
       /\ item.marks_mean.v = current.marks_mean.v
       /\ item.year > current.year

\* One pass of the loop over ranked; best is the Map in insertion order
DedupItem(best, item) ==
    LET key == Normalize(item.college)
    IN  IF ~\E b \in 1..Len(best) : best[b].key = key
        THEN Append(best, [key |-> key, value |-> item])
        ELSE [b \in 1..Len(best) |->
                IF best[b].key = key /\ isBetter(item, best[b].value)
                THEN [key |-> key, value |-> item]
                ELSE best[b]]

\* The comparator without its tie-break on marks_mean
CompareProbabilityOnly(a, b) == b.probability - a.probability

\* (a, b) => b.probability - a.probability || b.marks_mean - a.marks_mean
Compare(a, b) ==
    IF b.probability - a.probability # 0
    THEN b.probability - a.probability
    ELSE b.marks_mean.v - a.marks_mean.v

RECURSIVE InsertByRank(_, _)
InsertByRank(sorted, item) ==
    IF sorted = <<>> THEN <<item>>
    ELSE IF Compare(sorted[Len(sorted)], item) <= 0
    THEN Append(sorted, item)
    ELSE Append(InsertByRank(SubSeq(sorted, 1, Len(sorted) - 1), item),
                sorted[Len(sorted)])

RECURSIVE SortByRank(_)
SortByRank(xs) ==
    IF xs = <<>> THEN <<>>
    ELSE InsertByRank(SortByRank(SubSeq(xs, 1, Len(xs) - 1)), xs[Len(xs)])

(***************************************************************************)
(* The inputs                                                              *)
(***************************************************************************)
\* The longest dataset handed to predictColleges
MaxData == 2
\* The longest list handed to consolidateAcrossRounds, to
\* estimateAllotmentRound or to aggregateMeanStd when called on their own
MaxRounds == 3
\* The finite scores handed to probabilityFromStats are 0..MaxScore
MaxScore == 24

Stats(mean, std, min, max) == [mean |-> mean, std |-> std, min |-> min, max |-> max]

Summary(name, course, quota, category, community, type, round, year, rank, mk) ==
    [college |-> name, course |-> course, quota |-> quota,
     category |-> category, community |-> community,
     college_type |-> type, round |-> round, year |-> year,
     rank_mean |-> rank.mean, rank_std |-> rank.std,
     rank_min |-> rank.min, rank_max |-> rank.max,
     marks_mean |-> mk.mean, marks_std |-> mk.std,
     marks_min |-> mk.min, marks_max |-> mk.max]

ListsOf(S, max) == UNION {[1..n -> S] : n \in 0..max}

NoFilters ==
    [course |-> <<>>, community |-> <<>>, category |-> <<>>, quota |-> <<>>,
     collegeType |-> <<>>]

Idle == <<"idle">>

\* Rank statistics play no part in a prediction; every record carries these
RankStats == Stats(Fin(100), Fin(10), Fin(80), Fin(120))

\* A well-formed record of the course "m"
Record(collegeName, year, round, mk) ==
    Summary(collegeName, <<"m">>, <<"s">>, <<"g">>, <<"o">>, <<"p">>, round,
            year, RankStats, mk)

\* One round of one year of an institution: "a" and " A" are one institution
\* and, within a year, one group; "b" is another institution
Identities ==
    { <<<<"a">>, 2024>>, <<<<" ", "A">>, 2024>>, <<<<"a">>, 2025>>,
      <<<<"b">>, 2024>> }

\* A round label with its marks statistics (mean, std, min, max)
Profiles ==
    { <<<<"R", "1">>, Stats(Fin(50), Fin(10), Fin(30), Fin(70))>>,
      <<<<"R", "2">>, Stats(Fin(40), Fin(10), Fin(20), Fin(60))>>,
      <<<<"R", "1">>, Stats(Fin(50), Fin(0), Fin(48), Fin(68))>>,
      <<<<"R", "2">>, Stats(Fin(50), Fin(0), Fin(49), Fin(69))>>,
      <<<<"R", "1">>, Stats(Fin(45), Fin(0), Fin(45), Fin(45))>>,
      <<<<"R", "2">>, Stats(NaN, NaN, NaN, NaN)>>,
      <<<<"R", "1">>, Stats(Fin(50), Fin(0), Fin(50), Fin(70))>>,
      <<<<"R", "2">>, Stats(Fin(60), Fin(0), Fin(50), Fin(80))>> }

WellFormedRecords ==
    { Record(i[1], i[2], p[1], p[2]) : i \in Identities, p \in Profiles }

\* Records of another course, with an empty course, without the course
\* field, and without the round field
OtherRecords ==
    LET r == Record(<<"a">>, 2024, <<"R", "1">>,
                    Stats(Fin(50), Fin(10), Fin(30), Fin(70)))
    IN  { [r EXCEPT !.course = c] : c \in { <<"b">>, <<>>, Undefined } }
            \cup { [r EXCEPT !.round = Undefined] }

Records == WellFormedRecords \cup OtherRecords

Scores == { NaN, Fin(50), Fin(70) }

FilterChoices == { NoFilters, [NoFilters EXCEPT !.course = <<" ", "M">>] }

Init ==
    /\ marks \in Scores
    /\ filters \in FilterChoices
    /\ data \in ListsOf(Records, MaxData)
    /\ pc = "start"
    /\ consolidated = <<>>
    /\ kept = <<>>
    /\ scored = <<>>
    /\ ranked = <<>>
    /\ idx = 0
    /\ bestByCollege = <<>>
    /\ result = <<>>
    /\ college = Idle
    /\ details = Idle
    /\ allotmentRound = Idle
    /\ aggPoints = <<>>
    /\ aggregate = Idle

(***************************************************************************)
(* predictColleges, one array pass after the other                         *)
(***************************************************************************)
Consolidate ==
    /\ pc = "start"
    /\ IF consolidateThrows(data)
       THEN /\ pc' = "threw"
            /\ UNCHANGED consolidated
       ELSE /\ pc' = "consolidated"
            /\ consolidated' = consolidateAcrossRounds(data)
    /\ UNCHANGED <<marks, filters, data, kept, scored, ranked, idx,
                   bestByCollege, result, college, details, allotmentRound,
                   aggPoints, aggregate>>

FilterStage ==
    /\ pc = "consolidated"
    /\ kept' = Filtered(consolidated, filters)
    /\ pc' = "filtered"
    /\ UNCHANGED <<marks, filters, data, consolidated, scored, ranked, idx,
                   bestByCollege, result, college, details, allotmentRound,
                   aggPoints, aggregate>>

MapStage ==
    /\ pc = "filtered"
    /\ IF \E k \in 1..Len(kept) : estimateThrows(kept[k].roundSummaries)
       THEN /\ pc' = "threw"
            /\ UNCHANGED scored
       ELSE /\ pc' = "scored"
            /\ scored' = [k \in 1..Len(kept) |-> Score(kept[k], marks)]
    /\ UNCHANGED <<marks, filters, data, consolidated, kept, ranked, idx,
                   bestByCollege, result, college, details, allotmentRound,
                   aggPoints, aggregate>>

ThresholdStage ==
    /\ pc = "scored"
    /\ ranked' = SelectSeq(scored, AboveThreshold)
    /\ bestByCollege' = <<>>
    /\ idx' = 1
    /\ pc' = "ranked"
    /\ UNCHANGED <<marks, filters, data, consolidated, kept, scored, result,
                   college, details, allotmentRound,
                   aggPoints, aggregate>>

DedupStep ==
    /\ pc = "ranked"
    /\ idx <= Len(ranked)
    /\ bestByCollege' = DedupItem(bestByCollege, ranked[idx])
    /\ idx' = idx + 1
    /\ UNCHANGED <<marks, filters, data, pc, consolidated, kept, scored,
                   ranked, result, college, details, allotmentRound,
                   aggPoints, aggregate>>

SortAndReturn ==
    /\ pc = "ranked"
    /\ idx > Len(ranked)
    /\ result' = SortByRank([b \in 1..Len(bestByCollege) |->
                               bestByCollege[b].value])
    /\ pc' = "done"
    /\ UNCHANGED <<marks, filters, data, consolidated, kept, scored, ranked,
                   idx, bestByCollege, college, details, allotmentRound,
                   aggPoints, aggregate>>

Next ==
    \/ Consolidate
    \/ FilterStage
    \/ MapStage
    \/ ThresholdStage
    \/ DedupStep
    \/ SortAndReturn

Spec == Init /\ [][Next]_vars

(***************************************************************************)
(* Properties of predictColleges, under Spec                               *)
(***************************************************************************)
Range(xs) == {xs[k] : k \in 1..Len(xs)}

Institution(c) == Normalize(c.college)

\* C1: every record predictColleges returns has a probability within [0,1]
\* that is the rawScore of its probabilityDetails.
C1_ProbabilityInUnitInterval ==
    pc = "done" =>
        \A k \in 1..Len(result) :
            /\ result[k].probability >= 0
            /\ result[k].probability <= PScale
            /\ result[k].probability = result[k].probabilityDetails.rawScore

\* A returned record whose linear estimate was cut back to 1: the score lies
\* above the max of a summary without spread
C1_Witness ==
    /\ pc = "done"
    /\ \E k \in 1..Len(result) :
          /\ result[k].probabilityDetails.method = "min_max_linear"
          /\ marks.v > result[k].marks_max.v
          /\ result[k].probability = PScale

\* x is greater than y under: higher probability, then higher marks mean,
\* then more recent year
Beats(x, y) ==
    \/ x.probability > y.probability
    \/ x.probability = y.probability /\ x.marks_mean.v > y.marks_mean.v
    \/ /\ x.probability = y.probability
       /\ x.marks_mean.v = y.marks_mean.v
       /\ x.year > y.year

\* C2: the result holds one record per institution (names compared trimmed
\* and lower-cased): for every institution among the summaries that passed
\* the filters and the threshold, one of its summaries that none of its other
\* surviving summaries beats.
C2_BestVariantPerInstitution ==
    pc = "done" =>
        /\ \A i, j \in 1..Len(result) :
              i # j => Institution(result[i]) # Institution(result[j])
        /\ \A x \in Range(ranked) :
              \E k \in 1..Len(result) : Institution(result[k]) = Institution(x)
        /\ \A k \in 1..Len(result) :
              /\ result[k] \in Range(ranked)
              /\ \A x \in Range(ranked) :
                    Institution(x) = Institution(result[k])
                        => ~Beats(x, result[k])

\* Two surviving summaries of one institution tie on probability and marks
\* mean, and the later one in the list is the more recent: the year decides
C2_Witness ==
    /\ pc = "done"
    /\ \E i, j \in 1..Len(ranked) :
          /\ i < j
          /\ Institution(ranked[i]) = Institution(ranked[j])
          /\ ranked[i].probability = ranked[j].probability
          /\ ranked[i].marks_mean = ranked[j].marks_mean
          /\ ranked[i].year < ranked[j].year
          /\ ranked[j] \in Range(result)

\* C3: the result is sorted by descending probability, and records of equal
\* probability by descending marks mean.
C3_SortedByProbabilityThenMean ==
    pc = "done" =>
        \A i, j \in 1..Len(result) :
            i < j =>
                \/ result[i].probability > result[j].probability
                \/ /\ result[i].probability = result[j].probability
                   /\ result[i].marks_mean.v >= result[j].marks_mean.v

\* Two institutions tie on probability, and the one met later in the dataset
\* has the higher marks mean and is returned first
C3_Witness ==
    /\ pc = "done"
    /\ Len(result) = 2
    /\ result[1].probability = result[2].probability
    /\ result[1].marks_mean.v > result[2].marks_mean.v
    /\ ranked = <<result[2], result[1]>>

\* C4: a summary that passed the filters goes on to deduplication exactly
\* when its rawScore is at least 0.10, and only such summaries are returned.
C4_ThresholdAtTenPercent ==
    /\ pc \in {"ranked", "done"} =>
          \A c \in Range(scored) :
              c \in Range(ranked) <=> c.probabilityDetails.rawScore >= Prob(10)
    /\ pc = "done" =>
          \A r \in Range(result) :
              r \in Range(scored) /\ r.probabilityDetails.rawScore >= Prob(10)

\* A summary with rawScore exactly 0.10 is returned while one with a
\* positive rawScore below 0.10 is not
C4_Witness ==
    /\ pc = "done"
    /\ \E c \in Range(scored) :
          c.probabilityDetails.rawScore = Prob(10) /\ c \in Range(result)
    /\ \E c \in Range(scored) :
          /\ c.probabilityDetails.rawScore > 0
          /\ c.probabilityDetails.rawScore < Prob(10)
          /\ c \notin Range(result)

\* The five filter criteria with the record field each is matched against
Criteria(c, f) ==
    << <<c.course, f.course>>, <<c.community, f.community>>,
       <<c.category, f.category>>, <<c.quota, f.quota>>,
       <<c.college_type, f.collegeType>> >>

Missing(value) == value = Undefined \/ value = <<>>

CriterionMatches(value, selected) ==
    \/ Normalize(selected) = <<>>
    \/ Missing(value)
    \/ Normalize(value) = Normalize(selected)

FilterFields(item) ==
    <<item.course, item.community, item.category, item.quota,
      item.college_type>>

\* C5: a consolidated summary passes the filter stage exactly when all five
\* criteria match (blank filter, missing field, or equal after trimming and
\* lower-casing), and a record with a missing identity field is processed
\* and matched, not rejected: the call goes through and the record's summary
\* is among those that pass.
C5_PermissiveFilter ==
    /\ pc \in {"filtered", "scored", "ranked", "done"} =>
          \A c \in Range(consolidated) :
              c \in Range(kept) <=>
                  \A k \in 1..5 :
                      CriterionMatches(Criteria(c, filters)[k][1],
                                       Criteria(c, filters)[k][2])
    /\ \A d \in 1..Len(data) :
          (\E k \in 1..5 : Missing(FilterFields(data[d])[k])) =>
              /\ pc # "threw"
              /\ pc \in {"filtered", "scored", "ranked", "done"} =>
                    \E c \in Range(kept) : data[d] \in Range(c.roundSummaries)

NonFinite(x) == ~IsFinite(x)

\* C8: predictColleges throws no exception; a non-finite score or a
\* non-finite mean, std, min or max handed to probabilityFromStats gives the
\* fallback method with rawScore 0; an empty dataset, or one whose records
\* are all filtered out, gives an empty result.
C8_NoThrowAndAbsorbed ==
    /\ pc # "threw"
    /\ pc \in {"scored", "ranked", "done"} =>
          \A c \in Range(scored) :
              LET d == c.probabilityDetails
              IN  (\/ NonFinite(d.inputMarks) \/ NonFinite(d.mean)
                   \/ NonFinite(d.std) \/ NonFinite(d.min) \/ NonFinite(d.max))
                      => d.method = "fallback" /\ d.rawScore = 0
    /\ (pc = "done" /\ (data = <<>> \/ kept = <<>>)) => result = <<>>

(***************************************************************************)
(* probabilityFromStats on its own: SpecProb                               *)
(***************************************************************************)
ProbScores == {NaN, PosInf, NegInf} \cup {Fin(n) : n \in 0..MaxScore}

\* Summaries around a mean of 12 marks: every statistic finite or not, the
\* deviation negative, zero, narrow or wide, the bounds in either order
ProbSummaries ==
    { Record(<<"a">>, 2024, <<"R", "1">>, Stats(mean, std, min, max)) :
        mean \in {NaN, PosInf, Fin(12)},
        std \in {NaN, PosInf, Fin(0 - 2), Fin(0), Fin(1), Fin(10)},
        min \in {NaN, NegInf, Fin(6), Fin(12)},
        max \in {NaN, Fin(6), Fin(18)} }

InitProb ==
    /\ marks \in ProbScores
    /\ college \in ProbSummaries
    /\ pc = "call"
    /\ details = Idle
    /\ filters = NoFilters
    /\ data = <<>>
    /\ consolidated = <<>>
    /\ kept = <<>>
    /\ scored = <<>>
    /\ ranked = <<>>
    /\ idx = 0
    /\ bestByCollege = <<>>
    /\ result = <<>>
    /\ allotmentRound = Idle
    /\ aggPoints = <<>>
    /\ aggregate = Idle

\* probabilityFromStats(marks, college) returns
CallProbability ==
    /\ pc = "call"
    /\ details' = probabilityFromStats(marks, college)
    /\ pc' = "returned"
    /\ UNCHANGED <<marks, filters, data, consolidated, kept, scored, ranked,
                   idx, bestByCollege, result, college, allotmentRound,
                   aggPoints, aggregate>>

\* The same summary is asked about another score
CallAgain ==
    /\ pc = "returned"
    /\ \E m \in ProbScores :
          /\ m # marks
          /\ marks' = m
          /\ details' = probabilityFromStats(m, college)
    /\ UNCHANGED <<filters, data, pc, consolidated, kept, scored, ranked, idx,
                   bestByCollege, result, college, allotmentRound,
                   aggPoints, aggregate>>

NextProb == CallProbability \/ CallAgain

SpecProb == InitProb /\ [][NextProb]_vars

\* The five branches by their conditions on the inputs
Branch1 == NonFinite(marks) \/ NonFinite(college.marks_mean)
Branch2 ==
    /\ ~Branch1
    /\ IsFinite(college.marks_min)
    /\ marks.v < college.marks_min.v
Branch3 ==
    /\ ~Branch1
    /\ ~Branch2
    /\ IsFinite(college.marks_std)
    /\ college.marks_std.v > 0
Branch4 ==
    /\ ~Branch1
    /\ ~Branch2
    /\ ~Branch3
    /\ IsFinite(college.marks_min)
    /\ IsFinite(college.marks_max)
    /\ college.marks_max.v > college.marks_min.v
Branch5 == ~Branch1 /\ ~Branch2 /\ ~Branch3 /\ ~Branch4

\* q is the quotient num / den (den > 0) rounded down to the grid
IsQuotient(q, num, den) == q * den <= num /\ num < (q + 1) * den

\* C6: probabilityFromStats takes the first branch that matches, in the
\* order: score or mean not finite; min finite and score below min; std
\* finite and positive (normal_cdf of z = (score - mean) / std); min and max
\* finite and max > min (linear, clamped to [0,1]); otherwise 0.85 or 0.15.
\* A score equal to min never takes the second branch.
C6_FirstMatchingBranch ==
    pc = "returned" =>
        /\ Branch1 =>
              /\ details.method = "fallback"
              /\ details.rawScore = 0
              /\ details.zScore = Null
        /\ Branch2 => details.method = "fallback" /\ details.rawScore = 0
        /\ Branch3 =>
              /\ details.method = "normal_cdf"
              /\ details.zScore # Null
              /\ IsQuotient(details.zScore.v,
                            (marks.v - college.marks_mean.v) * ZScale,
                            college.marks_std.v)
              /\ details.rawScore = Clamp(normalCdf(details.zScore.v), 0, PScale)
        /\ Branch4 =>
              /\ details.method = "min_max_linear"
              /\ details.zScore = Null
              /\ IF marks.v >= college.marks_max.v
                 THEN details.rawScore = PScale
                 ELSE IsQuotient(details.rawScore,
                                 (marks.v - college.marks_min.v) * PScale,
                                 college.marks_max.v - college.marks_min.v)
        /\ Branch5 =>
              /\ details.method = "fallback"
              /\ details.rawScore =
                    IF marks.v >= college.marks_mean.v THEN Prob(85)
                    ELSE Prob(15)
        /\ (~Branch1 /\ marks = college.marks_min) =>
              ~(details.method = "fallback" /\ details.rawScore = 0)

\* A score exactly at a finite min, with positive deviation: the normal-CDF
\* branch answers, with a positive rawScore
C6_Witness ==
    /\ pc = "returned"
    /\ IsFinite(marks)
    /\ marks = college.marks_min
    /\ details.method = "normal_cdf"
    /\ details.rawScore > 0

\* C10: for one summary with std > 0, a score that is no lower gets a
\* rawScore that is no lower, also from below the summary's min to above it.
C10_MonotoneInScore ==
    [][(/\ pc = "returned"
        /\ pc' = "returned"
        /\ IsFinite(college.marks_std)
        /\ college.marks_std.v > 0
        /\ IsFinite(marks)
        /\ IsFinite(marks')
        /\ marks.v <= marks'.v)
           => details.rawScore <= details'.rawScore]_vars

\* The summary has positive deviation and a finite min, the score asked
\* about lies above min and below the mean, and the normal-CDF branch gives
\* it a rawScore strictly between 0 and 0.5
C10_Witness ==
    /\ pc = "returned"
    /\ IsFinite(college.marks_std)
    /\ college.marks_std.v > 0
    /\ IsFinite(college.marks_min)
    /\ IsFinite(marks)
    /\ marks.v > college.marks_min.v
    /\ marks.v < college.marks_mean.v
    /\ details.inputMarks = marks
    /\ details.rawScore > 0
    /\ details.rawScore < Prob(50)

(***************************************************************************)
(* estimateAllotmentRound on its own: SpecRound                            *)
(***************************************************************************)
\* Round labels with the integer each is to be ordered by (0: none): a
\* label without a digit, single digits, two digits, and a label whose first
\* integer is not its last
RoundLabels ==
    { <<<<"R">>, 0>>, <<<<"R", "1">>, 1>>, <<<<"R", "2">>, 2>>,
      <<<<"R", "1", "0">>, 10>>, <<<<"2", "R", "1">>, 2>> }

\* For a score of 50: likely (z = 1), possible (z = -1), below the floor
RoundStats ==
    { Stats(Fin(40), Fin(10), Fin(30), Fin(60)),
      Stats(Fin(60), Fin(10), Fin(30), Fin(80)),
      Stats(Fin(60), Fin(10), Fin(55), Fin(80)) }

RoundRecords ==
    { Record(<<"a">>, 2024, l[1], st) : l \in RoundLabels, st \in RoundStats }

InitRound ==
    /\ marks \in {Fin(50), NaN}
    /\ data \in ListsOf(RoundRecords, MaxRounds)
    /\ pc = "call"
    /\ allotmentRound = Idle
    /\ aggPoints = <<>>
    /\ aggregate = Idle
    /\ filters = NoFilters
    /\ consolidated = <<>>
    /\ kept = <<>>
    /\ scored = <<>>
    /\ ranked = <<>>
    /\ idx = 0
    /\ bestByCollege = <<>>
    /\ result = <<>>
    /\ college = Idle
    /\ details = Idle

\* estimateAllotmentRound(data, marks) returns or throws
CallEstimate ==
    /\ pc = "call"
    /\ IF estimateThrows(data)
       THEN /\ pc' = "threw"
            /\ UNCHANGED allotmentRound
       ELSE /\ pc' = "returned"
            /\ allotmentRound' = estimateAllotmentRound(data, marks)
    /\ UNCHANGED <<marks, filters, data, consolidated, kept, scored, ranked,
                   idx, bestByCollege, result, college, details,
                   aggPoints, aggregate>>

NextRound == CallEstimate

SpecRound == InitRound /\ [][NextRound]_vars

\* The integer a label is to be ordered by, read off RoundLabels
Ordinal(label) == (CHOOSE l \in RoundLabels : l[1] = label)[2]

\* Round i comes strictly before round j: a numbered round before one
\* without a number, a lower number before a higher one
ComesBefore(i, j) ==
    LET oi == Ordinal(data[i].round)
        oj == Ordinal(data[j].round)
    IN  (oi # 0 /\ oj = 0) \/ (oi # 0 /\ oj # 0 /\ oi < oj)

RoundScore(k) == probabilityFromStats(marks, data[k]).rawScore

\* label is the label of a round among S that no round of S comes before
IsFirstAmong(label, S) ==
    \E i \in S : data[i].round = label /\ \A j \in S : ~ComesBefore(j, i)

\* C7: estimateAllotmentRound returns the label of the first round, by the
\* first integer in the label with unnumbered labels last, whose rawScore is
\* at least 0.5; failing that, of the first whose rawScore is positive;
\* failing that, "Not likely".
C7_FirstClearedRound ==
    pc = "returned" =>
        LET strong == {k \in 1..Len(data) : RoundScore(k) >= Prob(50)}
            possible == {k \in 1..Len(data) : RoundScore(k) > 0}
        IN  IF strong # {} THEN IsFirstAmong(allotmentRound, strong)
            ELSE IF possible # {} THEN IsFirstAmong(allotmentRound, possible)
            ELSE allotmentRound = NotLikely

\* Three likely rounds handed in as "R", "R10", "R2": the unnumbered one
\* goes last, 2 comes before 10, and "R2" is returned
C7_Witness ==
    /\ pc = "returned"
    /\ Len(data) = 3
    /\ data[1].round = <<"R">>
    /\ data[2].round = <<"R", "1", "0">>
    /\ data[3].round = <<"R", "2">>
    /\ \A k \in 1..3 : RoundScore(k) >= Prob(50)
    /\ allotmentRound = <<"R", "2">>

(***************************************************************************)
(* consolidateAcrossRounds on its own: SpecCons                            *)
(***************************************************************************)
BaseRecord ==
    Summary(<<"a">>, <<"a">>, <<"s">>, <<"g">>, <<"o">>, <<"p">>, <<"R", "1">>,
            2024, RankStats, Stats(Fin(50), Fin(10), Fin(30), Fin(70)))

\* The base record and records that differ from it in one field: by case or
\* surrounding space only, by another value, by a value that holds the
\* separator of the key, by the round, by the year; a later round whose
\* (mean, std) of the marks is not a number while its bounds are, and one
\* whose statistics are all NaN
ConsRecords ==
    { BaseRecord,
      [BaseRecord EXCEPT !.college = <<" ", "A">>],
      [BaseRecord EXCEPT !.college = <<"b">>],
      [BaseRecord EXCEPT !.college = <<"a", "|", "a">>],
      [BaseRecord EXCEPT !.course = <<"a", "|", "a">>],
      [BaseRecord EXCEPT !.course = <<"b">>],
      [BaseRecord EXCEPT !.quota = <<"S", " ">>],
      [BaseRecord EXCEPT !.quota = <<"m">>],
      [BaseRecord EXCEPT !.category = <<"b">>],
      [BaseRecord EXCEPT !.community = <<"b">>],
      [BaseRecord EXCEPT !.college_type = <<"b">>],
      [BaseRecord EXCEPT !.college_type = Undefined],
      [BaseRecord EXCEPT !.year = 2025],
      [BaseRecord EXCEPT !.round = <<"R", "2">>,
                         !.marks_mean = Fin(40), !.marks_min = Fin(20)],
      [BaseRecord EXCEPT !.round = <<"R", "3">>,
                         !.rank_min = Fin(60), !.rank_max = Fin(150),
                         !.marks_mean = NaN, !.marks_std = NaN,
                         !.marks_min = Fin(10), !.marks_max = Fin(90)],
      [BaseRecord EXCEPT !.round = <<"R", "4">>,
                         !.rank_mean = NaN, !.rank_std = NaN,
                         !.rank_min = NaN, !.rank_max = NaN,
                         !.marks_mean = NaN, !.marks_std = NaN,
                         !.marks_min = NaN, !.marks_max = NaN] }

InitCons ==
    /\ data \in ListsOf(ConsRecords, MaxRounds)
    /\ pc = "start"
    /\ marks = Fin(50)
    /\ filters = NoFilters
    /\ consolidated = <<>>
    /\ kept = <<>>
    /\ scored = <<>>
    /\ ranked = <<>>
    /\ idx = 0
    /\ bestByCollege = <<>>
    /\ result = <<>>
    /\ college = Idle
    /\ details = Idle
    /\ allotmentRound = Idle
    /\ aggPoints = <<>>
    /\ aggregate = Idle

NextCons == Consolidate

SpecCons == InitCons /\ [][NextCons]_vars

\* The seven fields of the grouping, each trimmed and lower-cased
Identity(item) ==
    <<Normalize(item.college), Normalize(item.course), Normalize(item.quota),
      Normalize(item.category), Normalize(item.community),
      Normalize(item.college_type), item.year>>

GroupsOf(item) ==
    {g \in 1..Len(consolidated) : item \in Range(consolidated[g].roundSummaries)}

Count(xs, x) == Cardinality({k \in 1..Len(xs) : xs[k] = x})

\* C9: consolidateAcrossRounds produces one summary per distinct combination
\* of the seven normalized fields: two records share a group if and only if
\* their seven normalized fields are equal, every record is in exactly one
\* group, and the groups together hold every record exactly once.
C9_OneGroupPerIdentity ==
    pc = "consolidated" =>
        /\ Len(consolidated) = Cardinality({Identity(x) : x \in Range(data)})
        /\ \A x, y \in Range(data) :
              (GroupsOf(x) \cap GroupsOf(y) # {}) <=> Identity(x) = Identity(y)
        /\ \A x \in Range(data) :
              /\ Cardinality(GroupsOf(x)) = 1
              /\ Count(data, x) =
                    SumSeq([g \in 1..Len(consolidated) |->
                              Count(consolidated[g].roundSummaries, x)])

(***************************************************************************)
(* aggregateMeanStd called on its own                                      *)
(***************************************************************************)
\* The means and the standard deviations of the pairs handed in
AggMeans == {NaN, PosInf, Fin(0 - 1), Fin(0), Fin(10)}
AggStds == {NaN, Fin(0 - 1), Fin(0), Fin(2)}

AggPairs == [mean : AggMeans, std : AggStds]

InitAgg ==
    /\ aggPoints \in ListsOf(AggPairs, MaxRounds)
    /\ aggregate = Idle
    /\ pc = "call"
    /\ marks = NaN
    /\ filters = NoFilters
    /\ data = <<>>
    /\ consolidated = <<>>
    /\ kept = <<>>
    /\ scored = <<>>
    /\ ranked = <<>>
    /\ idx = 0
    /\ bestByCollege = <<>>
    /\ result = <<>>
    /\ college = Idle
    /\ details = Idle
    /\ allotmentRound = Idle

\* aggregateMeanStd(points) returns
CallAggregate ==
    /\ pc = "call"
    /\ aggregate' = aggregateMeanStd(aggPoints)
    /\ pc' = "aggregated"
    /\ UNCHANGED <<marks, filters, data, consolidated, kept, scored, ranked,
                   idx, bestByCollege, result, college, details,
                   allotmentRound, aggPoints>>

NextAgg == CallAggregate

SpecAgg == InitAgg /\ [][NextAgg]_vars

Zero == [mean |-> Fin(0), std |-> Fin(0)]

\* A pair with finite mean, finite std and std >= 0
IsValidPair(p) ==
    ~NonFinite(p.mean) /\ ~NonFinite(p.std) /\ ~NumLt(p.std, Fin(0))

\* C11 as stated: aggregateMeanStd applied to a single-element input returns
\* that element's mean and std unchanged.
C11_SingleElementUnchanged ==
    (pc = "aggregated" /\ Len(aggPoints) = 1) =>
        /\ aggregate.mean = aggPoints[1].mean
        /\ aggregate.std = aggPoints[1].std

\* C11, amended: aggregateMeanStd applied to a single valid pair (finite
\* mean, finite std, std >= 0) of whole-number statistics returns that
\* pair's mean and std unchanged; applied to a single pair that is not
\* valid it returns (0, 0).
C11_SingleValidElementUnchanged ==
    (pc = "aggregated" /\ Len(aggPoints) = 1) =>
        IF IsValidPair(aggPoints[1])
        THEN /\ aggregate.mean = aggPoints[1].mean
             /\ aggregate.std = aggPoints[1].std
        ELSE aggregate = Zero

C11_Witness ==
    /\ pc = "aggregated"
    /\ aggPoints = <<[mean |-> Fin(10), std |-> Fin(2)]>>
    /\ aggregate = [mean |-> Fin(10), std |-> Fin(2)]

\* The positions of the valid pairs, and sums over them
ValidAt == {k \in 1..Len(aggPoints) : IsValidPair(aggPoints[k])}

SumOfMeans ==
    SumSeq([k \in 1..Len(aggPoints) |->
              IF k \in ValidAt THEN aggPoints[k].mean.v ELSE 0])

SumOfSquares ==
    SumSeq([k \in 1..Len(aggPoints) |->
              IF k \in ValidAt
              THEN aggPoints[k].std.v * aggPoints[k].std.v
                   + aggPoints[k].mean.v * aggPoints[k].mean.v
              ELSE 0])

\* C12: for every list of (mean, std) pairs aggregateMeanStd returns
\* std >= 0; the returned mean is the unweighted arithmetic mean of the means
\* of the valid pairs and lies within [min, max] of those means; the returned
\* std is the square root of the average of (std^2 + mean^2) over the valid
\* pairs minus the squared returned mean, floored at 0; an empty list or a
\* list with no valid pair returns (0, 0).  Quotients and the root are
\* rounded down to the grid.
C12_MomentAggregation ==
    pc = "aggregated" =>
        /\ ~NonFinite(aggregate.std) /\ aggregate.std.v >= 0
        /\ ValidAt = {} => aggregate = Zero
        /\ ValidAt # {} =>
              LET n == Cardinality(ValidAt)
                  m == aggregate.mean.v
                  sd == aggregate.std.v
              IN  /\ ~NonFinite(aggregate.mean)
                  /\ IsQuotient(m, SumOfMeans, n)
                  /\ \E k \in ValidAt : aggPoints[k].mean.v <= m
                  /\ \E k \in ValidAt : m <= aggPoints[k].mean.v
                  /\ \E q \in 0..SumOfSquares :
                        /\ IsQuotient(q, SumOfSquares, n)
                        /\ IF q - m * m <= 0 THEN sd = 0
                           ELSE /\ sd * sd <= q - m * m
                                /\ q - m * m < (sd + 1) * (sd + 1)

\* Two valid pairs of different means next to a pair that is not valid, and
\* a positive combined std
C12_Witness ==
    /\ pc = "aggregated"
    /\ Cardinality(ValidAt) >= 2
    /\ ValidAt # 1..Len(aggPoints)
    /\ \E j, k \in ValidAt : aggPoints[j].mean # aggPoints[k].mean
    /\ aggregate.std.v > 0

(***************************************************************************)
(* consolidateAcrossRounds: the bounds of a group                          *)
(***************************************************************************)
\* a <= b as JavaScript compares numbers
LessEq(a, b) == NumLt(a, b) \/ (a = b /\ a # NaN)

\* x is in S and no member of S is smaller
IsLeast(x, S) == x \in S /\ \A y \in S : y = x \/ NumLt(x, y)
IsGreatest(x, S) == x \in S /\ \A y \in S : y = x \/ NumLt(y, x)

\* [lo, hi] contains the interval [min, max] of a record whose bounds are
\* numbers
Contains(lo, hi, min, max) ==
    (min # NaN /\ max # NaN) => (LessEq(lo, min) /\ LessEq(max, hi))

\* C13: for every consolidated summary, marks_min and rank_min equal the
\* smallest min among the group's constituent records and marks_max and
\* rank_max equal the largest max among them, so that the consolidated
\* [min, max] interval contains the interval of every constituent record,
\* also of those whose (mean, std) pair the aggregator discarded.
C13_BoundsSpanConstituents ==
    pc = "consolidated" =>
        \A g \in 1..Len(consolidated) :
            LET c == consolidated[g]
                items == Range(c.roundSummaries)
            IN  /\ IsLeast(c.marks_min, {i.marks_min : i \in items})
                /\ IsGreatest(c.marks_max, {i.marks_max : i \in items})
                /\ IsLeast(c.rank_min, {i.rank_min : i \in items})
                /\ IsGreatest(c.rank_max, {i.rank_max : i \in items})
                /\ \A i \in items :
                      /\ Contains(c.marks_min, c.marks_max,
                                  i.marks_min, i.marks_max)
                      /\ Contains(c.rank_min, c.rank_max,
                                  i.rank_min, i.rank_max)

(***************************************************************************)
(* predictColleges: the round of a returned record                         *)
(***************************************************************************)
\* The consolidated summaries a returned record was scored from
SummariesOf(r) ==
    {c \in Range(consolidated) :
        \A f \in DOMAIN c \ {"roundSummaries"} : c[f] = r[f]}

\* C14: every record returned by predictColleges has an allotmentRound that
\* is the round label of one of its own constituent per-round records, never
\* the sentinel "Not likely".
C14_RoundOfAConstituent ==
    pc = "done" =>
        \A r \in Range(result) :
            /\ r.allotmentRound # NotLikely
            /\ \E c \in SummariesOf(r) :
                  \E i \in Range(c.roundSummaries) : i.round = r.allotmentRound

====
